---- MODULE Spec2Model ----
(***************************************************************************)
(* Booking conflict detection of the Campus Resource Hub                   *)
(* (src/src/data_access/booking_dal.py over src/src/data_access/base_dal.py)*)
(*                                                                         *)
(* The store is the SQLite database: the bookings table and the            *)
(* resource_unavailable_slots table.  Date-times are stored as the text    *)
(* that datetime.isoformat() produces and the SQL predicates compare that  *)
(* text bytewise, so the model keeps both the datetime values the Python   *)
(* code compares and the strings SQLite compares.                          *)
(*                                                                         *)
(* Scope of the model: naive datetimes of one calendar day that differ in  *)
(* the time of day; the parts of the ISO string that are the same for all  *)
(* of them (the date "2025-11-15T" and the seconds ":00") are left out of   *)
(* the modelled string.  Columns the modelled operations never read        *)
(* (approval_required, notes, created_at, updated_at) are not stored.      *)
(***************************************************************************)
EXTENDS Integers, Sequences, FiniteSets, TLC

\* ------------------------------------------------------------------ bounds
MaxBookings == 2
MaxResource == 2
MaxUser == 1
FirstHour == 9
LastHour == 10
MaxMicrosecond == 1
MaxProcs == 2

Resources == 1..MaxResource
Users == 1..MaxUser
Procs == 1..MaxProcs
BookingIds == 1..MaxBookings

\* ------------------------------------------------------- datetime values
\* bookings are requested on the hour, or a few microseconds off it
Minutes == {0}

DateTimes == [hour : FirstHour..LastHour, minute : Minutes, microsecond : 0..MaxMicrosecond]

\* Optional[datetime] = None
NoDateTime == [hour |-> -1, minute |-> 0, microsecond |-> 0]

OptDateTimes == DateTimes \cup {NoDateTime}

\* Python's datetime.__lt__ / __le__ on naive datetimes
dt_lt(a, b) ==
    \/ a.hour < b.hour
    \/ a.hour = b.hour /\ a.minute < b.minute
    \/ a.hour = b.hour /\ a.minute = b.minute /\ a.microsecond < b.microsecond

dt_le(a, b) == a = b \/ dt_lt(a, b)

\* datetime + timedelta(minutes = m)
add_minutes(dt, m) ==
    [hour |-> (dt.hour * 60 + dt.minute + m) \div 60,
     minute |-> (dt.hour * 60 + dt.minute + m) % 60,
     microsecond |-> dt.microsecond]

\* characters are their ASCII codes
Chr0 == 48
ChrDot == 46
ChrColon == 58

Pow10(n) == IF n = 0 THEN 1
            ELSE IF n = 1 THEN 10
            ELSE IF n = 2 THEN 100
            ELSE IF n = 3 THEN 1000
            ELSE IF n = 4 THEN 10000
            ELSE 100000

\* datetime.isoformat(), as "HH:MM" and the fraction: zero-padded fields;
\* ".ffffff" only when microsecond # 0
isoformat(dt) ==
    <<Chr0 + (dt.hour \div 10), Chr0 + (dt.hour % 10), ChrColon,
      Chr0 + (dt.minute \div 10), Chr0 + (dt.minute % 10)>>
    \o (IF dt.microsecond = 0
        THEN <<>>
        ELSE <<ChrDot>> \o [i \in 1..6 |-> Chr0 + ((dt.microsecond \div Pow10(6 - i)) % 10)])

\* datetime.fromisoformat() on a string isoformat() produced
fromisoformat(s) ==
    [hour |-> (s[1] - Chr0) * 10 + (s[2] - Chr0),
     minute |-> (s[4] - Chr0) * 10 + (s[5] - Chr0),
     microsecond |-> IF Len(s) = 5 THEN 0
                     ELSE (s[7] - Chr0) * 100000 + (s[8] - Chr0) * 10000
                          + (s[9] - Chr0) * 1000 + (s[10] - Chr0) * 100
                          + (s[11] - Chr0) * 10 + (s[12] - Chr0)]

Min(a, b) == IF a < b THEN a ELSE b

\* text_lt with "<=" in place of "<"
text_le(a, b) ==
    \/ a = b
    \/ \E i \in 1..Min(Len(a), Len(b)) :
          /\ a[i] < b[i]
          /\ \A j \in 1..(i - 1) : a[j] = b[j]
    \/ /\ Len(a) < Len(b)
       /\ \A j \in 1..Len(a) : a[j] = b[j]

\* SQLite's "<" on two TEXT values (BINARY collation: memcmp, then length)
text_lt(a, b) ==
    \/ \E i \in 1..Min(Len(a), Len(b)) :
          /\ a[i] < b[i]
          /\ \A j \in 1..(i - 1) : a[j] = b[j]
    \/ /\ Len(a) < Len(b)
       /\ \A j \in 1..Len(a) : a[j] = b[j]

\* ------------------------------------------------------------- the store
Statuses == {"pending", "approved", "rejected", "cancelled", "completed"}
ActiveStatuses == {"approved", "pending"}

\* Optional[str] = None, and the notes a caller may pass
NoNotes == "None"
Notes == {NoNotes, "n"}

\* 0 stands for both None and 0: Python treats either as false
NoBooking == 0

VARIABLES bookings, unavailable, pc, local, last, scan, now, resources

vars == <<bookings, unavailable, pc, local, last, scan, now, resources>>

\* one row of the bookings table; its booking_id is its index in bookings
Booking(r, u, s, e, st) ==
    [resource_id |-> r, requester_id |-> u,
     start_datetime |-> s, end_datetime |-> e,
     status |-> st]

\* one row of resource_unavailable_slots
UnavailableSlot(r, s, e) ==
    [resource_id |-> r, start_datetime |-> s, end_datetime |-> e]

\* the blackout slots declared in the database (no operation of the
\* application writes this table): resource 1 has one, the others none
SlotChoices ==
    {UnavailableSlot(1, isoformat([hour |-> FirstHour, minute |-> 0, microsecond |-> 0]),
                        isoformat([hour |-> FirstHour, minute |-> 0, microsecond |-> MaxMicrosecond]))}

\* ------------------------------------------------ BookingDAL: the queries

\* booking_conflicts with status = 'approved' in place of the IN list
booking_conflicts_approved_only(bk, resource_id, start_datetime, end_datetime, exclude_booking_id) ==
    Cardinality({b \in 1..Len(bk) :
        /\ bk[b].resource_id = resource_id
        /\ bk[b].status = "approved"
        /\ text_lt(bk[b].start_datetime, isoformat(end_datetime))
        /\ text_lt(isoformat(start_datetime), bk[b].end_datetime)
        /\ (exclude_booking_id # NoBooking => b # exclude_booking_id)})

\* booking_conflicts with the two datetime parameters bound the other way round
booking_conflicts_swapped_params(bk, resource_id, start_datetime, end_datetime, exclude_booking_id) ==
    Cardinality({b \in 1..Len(bk) :
        /\ bk[b].resource_id = resource_id
        /\ bk[b].status \in ActiveStatuses
        /\ text_lt(bk[b].start_datetime, isoformat(start_datetime))
        /\ text_lt(isoformat(end_datetime), bk[b].end_datetime)
        /\ (exclude_booking_id # NoBooking => b # exclude_booking_id)})

\* booking_conflicts without the status condition
booking_conflicts_any_status(bk, resource_id, start_datetime, end_datetime, exclude_booking_id) ==
    Cardinality({b \in 1..Len(bk) :
        /\ bk[b].resource_id = resource_id
        /\ text_lt(bk[b].start_datetime, isoformat(end_datetime))
        /\ text_lt(isoformat(start_datetime), bk[b].end_datetime)
        /\ (exclude_booking_id # NoBooking => b # exclude_booking_id)})

\* booking_conflicts without the resource_id condition
booking_conflicts_any_resource(bk, resource_id, start_datetime, end_datetime, exclude_booking_id) ==
    Cardinality({b \in 1..Len(bk) :
        /\ bk[b].status \in ActiveStatuses
        /\ text_lt(bk[b].start_datetime, isoformat(end_datetime))
        /\ text_lt(isoformat(start_datetime), bk[b].end_datetime)
        /\ (exclude_booking_id # NoBooking => b # exclude_booking_id)})

\* booking_conflicts without the booking_id != ? condition
booking_conflicts_no_exclude(bk, resource_id, start_datetime, end_datetime, exclude_booking_id) ==
    Cardinality({b \in 1..Len(bk) :
        /\ bk[b].resource_id = resource_id
        /\ bk[b].status \in ActiveStatuses
        /\ text_lt(bk[b].start_datetime, isoformat(end_datetime))
        /\ text_lt(isoformat(start_datetime), bk[b].end_datetime)})

\* first SELECT COUNT(*) of has_booking_conflict, on the table bk
booking_conflicts(bk, resource_id, start_datetime, end_datetime, exclude_booking_id) ==
    Cardinality({b \in 1..Len(bk) :
        /\ bk[b].resource_id = resource_id
        /\ bk[b].status \in ActiveStatuses
        /\ text_lt(bk[b].start_datetime, isoformat(end_datetime))
        /\ text_lt(isoformat(start_datetime), bk[b].end_datetime)
        /\ (exclude_booking_id # NoBooking => b # exclude_booking_id)})

\* second SELECT COUNT(*) of has_booking_conflict, on the table un
unavailable_conflicts(un, resource_id, start_datetime, end_datetime) ==
    Cardinality({u \in un :
        /\ u.resource_id = resource_id
        /\ text_lt(u.start_datetime, isoformat(end_datetime))
        /\ text_lt(isoformat(start_datetime), u.end_datetime)})

has_booking_conflict(bk, un, resource_id, start_datetime, end_datetime, exclude_booking_id) ==
    IF booking_conflicts(bk, resource_id, start_datetime, end_datetime, exclude_booking_id) > 0
    THEN TRUE
    ELSE unavailable_conflicts(un, resource_id, start_datetime, end_datetime) > 0

\* conflicts_with that takes a period ending at the booking's start for a conflict
conflicts_with_inclusive(row, other_start, other_end) ==
    /\ dt_lt(fromisoformat(row.start_datetime), other_end)
    /\ dt_le(other_start, fromisoformat(row.end_datetime))

\* Booking.conflicts_with(other_start, other_end) of the Booking built
\* from a stored row (_parse_datetime reads the ISO text back)
conflicts_with(row, other_start, other_end) ==
    /\ dt_lt(fromisoformat(row.start_datetime), other_end)
    /\ dt_lt(other_start, fromisoformat(row.end_datetime))

\* get_bookings_by_resource(resource_id, start_date, end_date, status), as
\* get_available_slots uses it: the booking_ids of the rows selected
bookings_by_resource(bk, resource_id, start_date, end_date, status) ==
    {b \in 1..Len(bk) :
        /\ bk[b].resource_id = resource_id
        /\ ~text_lt(bk[b].end_datetime, isoformat(start_date))
        /\ ~text_lt(isoformat(end_date), bk[b].start_datetime)
        /\ bk[b].status = status}

\* the unavailable-slots query of get_available_slots
unavailable_in_range(un, resource_id, start_date, end_date) ==
    {u \in un :
        /\ u.resource_id = resource_id
        /\ text_lt(u.start_datetime, isoformat(end_date))
        /\ text_lt(isoformat(start_date), u.end_datetime)}

\* one entry of blocked_times; src and ord give its place in the list
\* before the sort: the bookings (src 0) in the order of the query, by
\* start_datetime and then booking_id, followed by the slots (src 1)
Blocked(s, e, src, ord) == [start |-> s, end |-> e, src |-> src, ord |-> ord]

blocked_entries(bk, un, resource_id, start_date, end_date) ==
    {Blocked(fromisoformat(bk[b].start_datetime), fromisoformat(bk[b].end_datetime), 0, b) :
        b \in bookings_by_resource(bk, resource_id, start_date, end_date, "approved")}
    \cup
    {Blocked(fromisoformat(u.start_datetime), fromisoformat(u.end_datetime), 1, 0) :
        u \in unavailable_in_range(un, resource_id, start_date, end_date)}

\* the order of blocked_times after the stable sort by start
blocked_before(x, y) ==
    \/ dt_lt(x.start, y.start)
    \/ /\ x.start = y.start
       /\ \/ x.src < y.src
          \/ x.src = y.src /\ x.ord < y.ord
          \/ x.src = y.src /\ x.ord = y.ord /\ dt_le(x.end, y.end)

RECURSIVE sort_blocked(_)
sort_blocked(S) ==
    IF S = {} THEN <<>>
    ELSE LET first == CHOOSE x \in S : \A y \in S : blocked_before(x, y)
         IN <<first>> \o sort_blocked(S \ {first})

\* the loop condition of get_available_slots that only asks the slot to
\* start inside the window
fits_start_only(current_time, slot_duration_minutes, end_date) ==
    dt_lt(current_time, end_date)

\* the loop condition of get_available_slots with < for <=
fits_strict(current_time, slot_duration_minutes, end_date) ==
    dt_lt(add_minutes(current_time, slot_duration_minutes), end_date)

\* while current_time + slot_duration <= end_date
fits(current_time, slot_duration_minutes, end_date) ==
    dt_le(add_minutes(current_time, slot_duration_minutes), end_date)

\* the for loop over blocked_times: the index of the first entry the
\* candidate slot overlaps, 0 when it overlaps none
first_hit(blocked_times, current_time, slot_end) ==
    LET hits == {i \in 1..Len(blocked_times) :
                    /\ dt_lt(current_time, blocked_times[i].end)
                    /\ dt_lt(blocked_times[i].start, slot_end)}
    IN IF hits = {} THEN 0 ELSE CHOOSE i \in hits : \A j \in hits : i <= j

\* resume_time that goes back to the start of the blocked period
resume_time_start(blocked) == blocked.start

\* current_time = blocked['end']: where the scan resumes after a hit
resume_time(blocked) == blocked.end

\* the while loop of get_available_slots, for slot_duration > 0
RECURSIVE scan_slots(_, _, _, _, _)
scan_slots(blocked_times, current_time, end_date, slot_duration_minutes, available_slots) ==
    IF ~fits(current_time, slot_duration_minutes, end_date)
    THEN available_slots
    ELSE LET slot_end == add_minutes(current_time, slot_duration_minutes)
             i == first_hit(blocked_times, current_time, slot_end)
         IN IF i = 0
            THEN scan_slots(blocked_times, slot_end, end_date, slot_duration_minutes,
                            Append(available_slots,
                                   [start_datetime |-> current_time,
                                    end_datetime |-> slot_end]))
            ELSE IF dt_le(end_date, resume_time(blocked_times[i]))
                 THEN available_slots
                 ELSE scan_slots(blocked_times, resume_time(blocked_times[i]), end_date,
                                 slot_duration_minutes, available_slots)

\* BookingDAL.get_available_slots
get_available_slots(bk, un, resource_id, start_date, end_date, slot_duration_minutes) ==
    scan_slots(sort_blocked(blocked_entries(bk, un, resource_id, start_date, end_date)),
               start_date, end_date, slot_duration_minutes, <<>>)

\* the slot lengths asked for, in minutes
SlotDurations == {30, 60}

\* ------------------------------------------------ the record of a call
\* The most recent call, until its caller has taken the result: the
\* operation, its arguments (0, "" or NoDateTime for those it does not
\* have) and its outcome.  raised is the exception ("" when the call
\* returned), ret_id an integer result (0 for None), ret_bool a boolean
\* result, ret_slots a list result.  booking_id is the booking_id argument (exclude_booking_id for
\* has_booking_conflict), status the new_status argument.
Call(op, r, u, s, e, b, st, n, ar, raised, ret_id, ret_bool) ==
    [op |-> op, resource_id |-> r, requester_id |-> u,
     start_datetime |-> s, end_datetime |-> e,
     booking_id |-> b, status |-> st, notes |-> n, approval_required |-> ar,
     slot_duration_minutes |-> 0,
     raised |-> raised, ret_id |-> ret_id, ret_bool |-> ret_bool, ret_slots |-> <<>>]

NoCall == Call("", 0, 0, NoDateTime, NoDateTime, 0, "", NoNotes, FALSE, "", 0, FALSE)

\* the arguments of a create_booking call in progress; db_error tells that
\* the database has failed one of its queries
NoArgs == [resource_id |-> 0, requester_id |-> 0,
           start_datetime |-> NoDateTime, end_datetime |-> NoDateTime,
           approval_required |-> FALSE, db_error |-> FALSE]

\* a get_available_slots call in progress: its arguments and the local
\* variables of its loop; pc is "idle" when no call is in progress
Scan(pc_, r, s, e, d, blocked_times, current_time, available_slots) ==
    [pc |-> pc_, resource_id |-> r, start_date |-> s, end_date |-> e,
     slot_duration_minutes |-> d, blocked_times |-> blocked_times,
     current_time |-> current_time, available_slots |-> available_slots]

NoScan == Scan("idle", 0, NoDateTime, NoDateTime, 0, <<>>, NoDateTime, <<>>)

\* datetime.now(): an instant of the modelled day, up to the hour after the
\* last bookable one
ClockTimes ==
    [hour : FirstHour..(LastHour + 1), minute : Minutes, microsecond : 0..MaxMicrosecond]

\* the day starts at the first bookable hour
DayStart == [hour |-> FirstHour, minute |-> 0, microsecond |-> 0]

\* one row of the resources table: the columns the booking routes read
ResourceStatuses == {"draft", "published", "archived"}

Resource(st, owner, approval) ==
    [status |-> st, owner_type |-> "user", owner_id |-> owner,
     requires_approval |-> approval]

\* the accounts that use the routes: the users, and one administrator
Accounts == 1..(MaxUser + 1)

\* User.role
user_role(u) == IF u = MaxUser + 1 THEN "admin" ELSE "student"

\* resource 1 belongs to user 1, every other resource to the administrator
resource_owner(r) == IF r = 1 THEN 1 ELSE MaxUser + 1

Init ==
    /\ bookings = <<>>
    /\ unavailable = SlotChoices
    /\ pc = [p \in Procs |-> "idle"]
    /\ local = [p \in Procs |-> NoArgs]
    /\ last = NoCall
    /\ scan = NoScan
    /\ now = DayStart
    /\ resources = [r \in Resources |-> Resource("published", resource_owner(r), TRUE)]

\* ------------------------------------- BookingDAL: calls run one at a time

\* insert_booking with the two initial statuses the wrong way round
insert_booking_swapped_status(bk, resource_id, requester_id, start_datetime, end_datetime, approval_required) ==
    Append(bk, Booking(resource_id, requester_id,
                       isoformat(start_datetime), isoformat(end_datetime),
                       IF approval_required THEN "approved" ELSE "pending"))

\* the INSERT INTO bookings of create_booking; AUTOINCREMENT gives the new
\* row the next booking_id
insert_booking(bk, resource_id, requester_id, start_datetime, end_datetime, approval_required) ==
    Append(bk, Booking(resource_id, requester_id,
                       isoformat(start_datetime), isoformat(end_datetime),
                       IF approval_required THEN "pending" ELSE "approved"))

\* create_booking without the validation of the datetime order
create_booking_no_validation(resource_id, requester_id, start_datetime, end_datetime, approval_required) ==
    IF has_booking_conflict(bookings, unavailable, resource_id,
                            start_datetime, end_datetime, NoBooking)
    THEN /\ last' = Call("create_booking", resource_id, requester_id, start_datetime,
                         end_datetime, 0, "", NoNotes, approval_required, "", 0, FALSE)
         /\ UNCHANGED bookings
    ELSE /\ Len(bookings) < MaxBookings
         /\ bookings' = insert_booking(bookings, resource_id, requester_id,
                                       start_datetime, end_datetime, approval_required)
         /\ last' = Call("create_booking", resource_id, requester_id, start_datetime,
                         end_datetime, 0, "", NoNotes, approval_required, "",
                         Len(bookings) + 1, FALSE)

\* create_booking that raises on a conflict instead of returning None
create_booking_conflict_raises(resource_id, requester_id, start_datetime, end_datetime, approval_required) ==
    IF dt_le(end_datetime, start_datetime)
    THEN /\ last' = Call("create_booking", resource_id, requester_id, start_datetime,
                         end_datetime, 0, "", NoNotes, approval_required,
                         "ValueError", 0, FALSE)
         /\ UNCHANGED bookings
    ELSE IF has_booking_conflict(bookings, unavailable, resource_id,
                                 start_datetime, end_datetime, NoBooking)
    THEN /\ last' = Call("create_booking", resource_id, requester_id, start_datetime,
                         end_datetime, 0, "", NoNotes, approval_required,
                         "ValueError", 0, FALSE)
         /\ UNCHANGED bookings
    ELSE /\ Len(bookings) < MaxBookings
         /\ bookings' = insert_booking(bookings, resource_id, requester_id,
                                       start_datetime, end_datetime, approval_required)
         /\ last' = Call("create_booking", resource_id, requester_id, start_datetime,
                         end_datetime, 0, "", NoNotes, approval_required, "",
                         Len(bookings) + 1, FALSE)

\* BookingDAL.create_booking (the notes column is not modelled)
create_booking(resource_id, requester_id, start_datetime, end_datetime, approval_required) ==
    IF dt_le(end_datetime, start_datetime)
    THEN /\ last' = Call("create_booking", resource_id, requester_id, start_datetime,
                         end_datetime, 0, "", NoNotes, approval_required,
                         "ValueError", 0, FALSE)
         /\ UNCHANGED bookings
    ELSE IF has_booking_conflict(bookings, unavailable, resource_id,
                                 start_datetime, end_datetime, NoBooking)
    THEN /\ last' = Call("create_booking", resource_id, requester_id, start_datetime,
                         end_datetime, 0, "", NoNotes, approval_required, "", 0, FALSE)
         /\ UNCHANGED bookings
    ELSE /\ Len(bookings) < MaxBookings
         /\ bookings' = insert_booking(bookings, resource_id, requester_id,
                                       start_datetime, end_datetime, approval_required)
         /\ last' = Call("create_booking", resource_id, requester_id, start_datetime,
                         end_datetime, 0, "", NoNotes, approval_required, "",
                         Len(bookings) + 1, FALSE)

\* a caller may start a call once the previous call's result has been taken
Ready == last = NoCall /\ scan = NoScan /\ \A p \in Procs : pc[p] = "idle"

CreateBooking ==
    /\ Ready
    /\ \E r \in Resources, u \in Users, s \in DateTimes, e \in DateTimes,
          ar \in BOOLEAN :
          create_booking(r, u, s, e, ar)
    /\ UNCHANGED <<unavailable, pc, local, scan, now, resources>>

\* HasBookingConflict with a check of the datetime order before the queries
HasBookingConflict_validates ==
    /\ Ready
    /\ \E r \in Resources, s \in DateTimes, e \in DateTimes, x \in 0..MaxBookings :
          last' = IF dt_le(e, s)
                  THEN Call("has_booking_conflict", r, 0, s, e, x, "", NoNotes, FALSE,
                            "ValueError", 0, FALSE)
                  ELSE Call("has_booking_conflict", r, 0, s, e, x, "", NoNotes, FALSE, "", 0,
                            has_booking_conflict(bookings, unavailable, r, s, e, x))
    /\ UNCHANGED <<bookings, unavailable, pc, local, scan, now, resources>>

\* BookingDAL.has_booking_conflict called on its own
HasBookingConflict ==
    /\ Ready
    /\ \E r \in Resources, s \in DateTimes, e \in DateTimes, x \in 0..MaxBookings :
          last' = Call("has_booking_conflict", r, 0, s, e, x, "", NoNotes, FALSE, "", 0,
                       has_booking_conflict(bookings, unavailable, r, s, e, x))
    /\ UNCHANGED <<bookings, unavailable, pc, local, scan, now, resources>>

\* set_status whose UPDATE has lost its WHERE clause
set_status_all_rows(bk, booking_id, new_status) ==
    [b \in 1..Len(bk) |-> [bk[b] EXCEPT !.status = new_status]]

\* the execute_update of update_booking_status: UPDATE ... WHERE booking_id = ?
set_status(bk, booking_id, new_status) ==
    [b \in 1..Len(bk) |->
        IF b = booking_id THEN [bk[b] EXCEPT !.status = new_status] ELSE bk[b]]

\* BookingDAL.update_booking_status (the approval log it also writes is not
\* part of the store modelled here)
update_booking_status(booking_id, new_status) ==
    IF new_status \notin {"pending", "approved", "rejected", "cancelled", "completed"}
    THEN /\ last' = Call("update_booking_status", 0, 0, NoDateTime, NoDateTime,
                         booking_id, new_status, NoNotes, FALSE, "ValueError", 0, FALSE)
         /\ UNCHANGED bookings
    ELSE /\ bookings' = set_status(bookings, booking_id, new_status)
         /\ last' = Call("update_booking_status", 0, 0, NoDateTime, NoDateTime,
                         booking_id, new_status, NoNotes, FALSE, "", 0,
                         booking_id \in 1..Len(bookings))

UpdateBookingStatus ==
    /\ Ready
    /\ \E b \in BookingIds, st \in Statuses \cup {"confirmed"} :
          update_booking_status(b, st)
    /\ UNCHANGED <<unavailable, pc, local, scan, now, resources>>

\* the execute_update of update_booking: UPDATE bookings SET <fields> WHERE booking_id = ?
set_times(bk, booking_id, start_datetime, end_datetime) ==
    [b \in 1..Len(bk) |->
        IF b = booking_id
        THEN [bk[b] EXCEPT
                !.start_datetime = IF start_datetime # NoDateTime
                                   THEN isoformat(start_datetime) ELSE @,
                !.end_datetime = IF end_datetime # NoDateTime
                                 THEN isoformat(end_datetime) ELSE @]
        ELSE bk[b]]

\* the interval update_booking validates: an omitted bound is read back
\* from the stored row
new_start(bk, booking_id, start_datetime) ==
    IF start_datetime # NoDateTime THEN start_datetime
    ELSE fromisoformat(bk[booking_id].start_datetime)

new_end(bk, booking_id, end_datetime) ==
    IF end_datetime # NoDateTime THEN end_datetime
    ELSE fromisoformat(bk[booking_id].end_datetime)

\* update_booking that writes the new times without checking them for conflicts
update_booking_no_conflict_check(booking_id, start_datetime, end_datetime, notes) ==
    IF booking_id \notin 1..Len(bookings)
    THEN /\ last' = Call("update_booking", 0, 0, start_datetime, end_datetime,
                         booking_id, "", notes, FALSE, "", 0, FALSE)
         /\ UNCHANGED bookings
    ELSE IF /\ (start_datetime # NoDateTime \/ end_datetime # NoDateTime)
            /\ dt_le(new_end(bookings, booking_id, end_datetime),
                     new_start(bookings, booking_id, start_datetime))
    THEN /\ last' = Call("update_booking", 0, 0, start_datetime, end_datetime,
                         booking_id, "", notes, FALSE, "ValueError", 0, FALSE)
         /\ UNCHANGED bookings
    ELSE IF start_datetime = NoDateTime /\ end_datetime = NoDateTime /\ notes = NoNotes
    THEN /\ last' = Call("update_booking", 0, 0, start_datetime, end_datetime,
                         booking_id, "", notes, FALSE, "", 0, FALSE)
         /\ UNCHANGED bookings
    ELSE /\ bookings' = set_times(bookings, booking_id, start_datetime, end_datetime)
         /\ last' = Call("update_booking", 0, 0, start_datetime, end_datetime,
                         booking_id, "", notes, FALSE, "", 0, TRUE)

\* BookingDAL.update_booking (notes is the argument; the column is not modelled)
update_booking(booking_id, start_datetime, end_datetime, notes) ==
    IF booking_id \notin 1..Len(bookings)
    THEN /\ last' = Call("update_booking", 0, 0, start_datetime, end_datetime,
                         booking_id, "", notes, FALSE, "", 0, FALSE)
         /\ UNCHANGED bookings
    ELSE IF /\ (start_datetime # NoDateTime \/ end_datetime # NoDateTime)
            /\ dt_le(new_end(bookings, booking_id, end_datetime),
                     new_start(bookings, booking_id, start_datetime))
    THEN /\ last' = Call("update_booking", 0, 0, start_datetime, end_datetime,
                         booking_id, "", notes, FALSE, "ValueError", 0, FALSE)
         /\ UNCHANGED bookings
    ELSE IF /\ (start_datetime # NoDateTime \/ end_datetime # NoDateTime)
            /\ has_booking_conflict(bookings, unavailable,
                                    bookings[booking_id].resource_id,
                                    new_start(bookings, booking_id, start_datetime),
                                    new_end(bookings, booking_id, end_datetime),
                                    booking_id)
    THEN /\ last' = Call("update_booking", 0, 0, start_datetime, end_datetime,
                         booking_id, "", notes, FALSE, "", 0, FALSE)
         /\ UNCHANGED bookings
    ELSE IF start_datetime = NoDateTime /\ end_datetime = NoDateTime /\ notes = NoNotes
    THEN /\ last' = Call("update_booking", 0, 0, start_datetime, end_datetime,
                         booking_id, "", notes, FALSE, "", 0, FALSE)
         /\ UNCHANGED bookings
    ELSE /\ bookings' = set_times(bookings, booking_id, start_datetime, end_datetime)
         /\ last' = Call("update_booking", 0, 0, start_datetime, end_datetime,
                         booking_id, "", notes, FALSE, "", 0, TRUE)

UpdateBooking ==
    /\ Ready
    /\ \E b \in BookingIds, s \in OptDateTimes, e \in OptDateTimes, n \in Notes :
          update_booking(b, s, e, n)
    /\ UNCHANGED <<unavailable, pc, local, scan, now, resources>>

\* BookingDAL.get_available_slots called with any window and slot length
GetAvailableSlots ==
    /\ Ready
    /\ \E r \in Resources, s \in DateTimes, e \in DateTimes, d \in SlotDurations :
          last' = [Call("get_available_slots", r, 0, s, e, 0, "", NoNotes, FALSE, "", 0, FALSE)
                   EXCEPT !.slot_duration_minutes = d,
                          !.ret_slots = get_available_slots(bookings, unavailable, r, s, e, d)]
    /\ UNCHANGED <<bookings, unavailable, pc, local, scan, now, resources>>

\* the caller takes the result of the call; the next call can start
Return ==
    /\ last # NoCall
    /\ last' = NoCall
    /\ UNCHANGED <<bookings, unavailable, pc, local, scan, now, resources>>

Next ==
    \/ CreateBooking
    \/ HasBookingConflict
    \/ UpdateBookingStatus
    \/ UpdateBooking
    \/ GetAvailableSlots
    \/ Return

Spec == Init /\ [][Next]_vars

\* ------------------------------------------ the lifecycle of a booking
\* the status changes of the Reservation lifecycle: pending -> approved,
\* pending -> rejected, pending/approved -> cancelled, approved -> completed
lifecycle_allows(from_status, to_status) ==
    \/ from_status = "pending" /\ to_status \in {"approved", "rejected", "cancelled"}
    \/ from_status = "approved" /\ to_status \in {"cancelled", "completed"}

\* update_booking_status used for a status change the lifecycle allows
LifecycleStatusChange ==
    /\ Ready
    /\ \E b \in 1..Len(bookings), st \in Statuses :
          /\ lifecycle_allows(bookings[b].status, st)
          /\ update_booking_status(b, st)
    /\ UNCHANGED <<unavailable, pc, local, scan, now, resources>>

LifecycleNext ==
    \/ CreateBooking
    \/ UpdateBooking
    \/ LifecycleStatusChange
    \/ Return

SpecLifecycle == Init /\ [][LifecycleNext]_vars

\* ---------------------------------- the routes that change a status
\* Booking.can_be_cancelled(current_user_id) at the time now
can_be_cancelled(row, current_user_id, current_time) ==
    /\ current_user_id = row.requester_id
    /\ row.status \notin {"cancelled", "rejected", "completed"}
    /\ dt_lt(current_time, fromisoformat(row.start_datetime))

\* Booking.can_be_approved: status pending and approval_required.  The
\* approval_required column is written once, by the INSERT of
\* create_booking, which sets it exactly when it sets the status pending,
\* and no route below makes a booking pending again, so here a pending
\* row has approval_required = 1.
can_be_approved(row) == row.status = "pending"

\* the result of a route: what it did to the bookings table
RouteCall(op, booking_id, requester_id, new_status, done) ==
    Call(op, 0, requester_id, NoDateTime, NoDateTime, booking_id, new_status,
         NoNotes, FALSE, "", 0, done)

\* booking_controller.cancel: POST /bookings/<booking_id>/cancel
CancelRoute ==
    /\ Ready
    /\ \E b \in BookingIds, current_user \in Users :
          IF b \in 1..Len(bookings) /\ can_be_cancelled(bookings[b], current_user, now)
          THEN /\ bookings' = set_status(bookings, b, "cancelled")
               /\ last' = RouteCall("booking.cancel", b, current_user, "cancelled", TRUE)
          ELSE /\ UNCHANGED bookings
               /\ last' = RouteCall("booking.cancel", b, current_user, "cancelled", FALSE)
    /\ UNCHANGED <<unavailable, pc, local, scan, now, resources>>

\* booking_controller.approve: POST /bookings/<booking_id>/approve by the
\* owner of the resource or an admin, with the action of the form
ApproveRoute ==
    /\ Ready
    /\ \E b \in BookingIds, action \in {"approved", "rejected"} :
          IF b \in 1..Len(bookings) /\ can_be_approved(bookings[b])
          THEN /\ bookings' = set_status(bookings, b, action)
               /\ last' = RouteCall("booking.approve", b, 0, action, TRUE)
          ELSE /\ UNCHANGED bookings
               /\ last' = RouteCall("booking.approve", b, 0, action, FALSE)
    /\ UNCHANGED <<unavailable, pc, local, scan, now, resources>>

\* admin_controller.cancel_booking: POST /admin/bookings/<booking_id>/cancel
AdminCancelRoute ==
    /\ Ready
    /\ \E b \in BookingIds :
          IF b \in 1..Len(bookings) /\ bookings[b].status \notin {"cancelled", "completed"}
          THEN /\ bookings' = set_status(bookings, b, "cancelled")
               /\ last' = RouteCall("admin.cancel_booking", b, 0, "cancelled", TRUE)
          ELSE /\ UNCHANGED bookings
               /\ last' = RouteCall("admin.cancel_booking", b, 0, "cancelled", FALSE)
    /\ UNCHANGED <<unavailable, pc, local, scan, now, resources>>

\* auto_complete that also completes the pending bookings that have ended
auto_complete_pending_too(bk, current_local) ==
    [b \in 1..Len(bk) |->
        IF bk[b].status \in ActiveStatuses /\ text_lt(bk[b].end_datetime, isoformat(current_local))
        THEN [bk[b] EXCEPT !.status = "completed"] ELSE bk[b]]

\* the UPDATE of BookingDAL.auto_complete_past_bookings at the time
\* current_local
auto_complete(bk, current_local) ==
    [b \in 1..Len(bk) |->
        IF bk[b].status = "approved" /\ text_lt(bk[b].end_datetime, isoformat(current_local))
        THEN [bk[b] EXCEPT !.status = "completed"] ELSE bk[b]]

\* cursor.rowcount of an UPDATE: the number of rows it changed
rows_affected(before, after) ==
    Cardinality({b \in 1..Len(before) : after[b] # before[b]})

\* BookingDAL.auto_complete_past_bookings, run by the booking lists
AutoCompletePastBookings ==
    /\ Ready
    /\ bookings' = auto_complete(bookings, now)
    /\ last' = [RouteCall("auto_complete_past_bookings", 0, 0, "completed",
                          bookings' # bookings)
                EXCEPT !.ret_id = rows_affected(bookings, bookings')]
    /\ UNCHANGED <<unavailable, pc, local, scan, now, resources>>

\* the UPDATE of BookingDAL.cancel_bookings_by_user
cancel_by_user(bk, user_id) ==
    [b \in 1..Len(bk) |->
        IF bk[b].requester_id = user_id /\ bk[b].status \in {"pending", "approved"}
        THEN [bk[b] EXCEPT !.status = "cancelled"] ELSE bk[b]]

\* admin_controller.ban_user: cancel_bookings_by_user for the banned user
BanUser ==
    /\ Ready
    /\ \E user_id \in Users :
          /\ bookings' = cancel_by_user(bookings, user_id)
          /\ last' = RouteCall("admin.ban_user", 0, user_id, "cancelled",
                               bookings' # bookings)
    /\ UNCHANGED <<unavailable, pc, local, scan, now, resources>>

\* time passes: a later datetime.now()
Tick ==
    /\ Ready
    /\ \E t \in ClockTimes : dt_lt(now, t) /\ now' = t
    /\ UNCHANGED <<bookings, unavailable, pc, local, last, scan, resources>>

\* bookings are created and their status changed through the routes only
RoutesNext ==
    \/ Tick
    \/ CreateBooking
    \/ CancelRoute
    \/ ApproveRoute
    \/ AdminCancelRoute
    \/ AutoCompletePastBookings
    \/ BanUser
    \/ Return

SpecRoutes == Init /\ [][RoutesNext]_vars

\* ------------------------- the routes that create bookings and archive
\* is_owner of booking_controller.create and resource_controller.detail
is_owner(res, current_user) ==
    res.owner_type = "user" /\ res.owner_id = current_user

\* a resource table whose resources are published; each one may or may
\* not require approval.  The requests arrive at the start of the day or
\* at its last bookable hour.
ResourcesInit ==
    /\ bookings = <<>>
    /\ unavailable = SlotChoices
    /\ pc = [p \in Procs |-> "idle"]
    /\ local = [p \in Procs |-> NoArgs]
    /\ last = NoCall
    /\ scan = NoScan
    /\ now \in {DayStart, [DayStart EXCEPT !.hour = LastHour]}
    /\ \E approval \in [Resources -> BOOLEAN] :
          resources = [r \in Resources |->
                          Resource("published", resource_owner(r), approval[r])]

\* booking_controller.create: POST /bookings/create/<resource_id> with a
\* BookingForm.  The form refuses an end that is not after the start and a
\* start in the past.
BookingCreateRoute ==
    /\ Ready
    /\ \E r \in Resources, current_user \in Users, s \in DateTimes, e \in DateTimes :
          IF \/ resources[r].status # "published"
             \/ dt_le(e, s)
             \/ dt_lt(s, now)
          THEN /\ UNCHANGED bookings
               /\ last' = RouteCall("booking.create", 0, current_user, "", FALSE)
          ELSE create_booking(r, current_user, s, e,
                              resources[r].requires_approval
                                 /\ ~is_owner(resources[r], current_user))
    /\ UNCHANGED <<unavailable, pc, local, scan, now, resources>>

\* resource_controller.detail: POST /resources/<resource_id> with the two
\* datetimes of the booking widget; a resource that is not published is
\* shown to its owner and to an administrator only
ResourceDetailPost ==
    /\ Ready
    /\ \E r \in Resources, current_user \in Users, s \in DateTimes, e \in DateTimes :
          IF /\ resources[r].status # "published"
             /\ ~(is_owner(resources[r], current_user) \/ user_role(current_user) = "admin")
          THEN /\ UNCHANGED bookings
               /\ last' = RouteCall("resource.detail", 0, current_user, "", FALSE)
          ELSE create_booking(r, current_user, s, e, resources[r].requires_approval)
    /\ UNCHANGED <<unavailable, pc, local, scan, now, resources>>

\* the loop of resource_controller.delete: BookingDAL.cancel_booking for
\* every approved and every pending booking of the resource
cancel_active_of_resource(bk, resource_id) ==
    [b \in 1..Len(bk) |->
        IF bk[b].resource_id = resource_id /\ bk[b].status \in {"approved", "pending"}
        THEN [bk[b] EXCEPT !.status = "cancelled"] ELSE bk[b]]

\* resource_controller.delete: POST /resources/<resource_id>/delete by the
\* owner or an administrator (owner_required)
ResourceDeleteRoute ==
    /\ Ready
    /\ \E r \in Resources, current_user \in Accounts :
          IF user_role(current_user) = "admin" \/ is_owner(resources[r], current_user)
          THEN /\ bookings' = cancel_active_of_resource(bookings, r)
               /\ resources' = [resources EXCEPT ![r].status = "archived"]
               /\ last' = [RouteCall("resource.delete", 0, current_user, "cancelled", TRUE)
                           EXCEPT !.resource_id = r]
          ELSE /\ UNCHANGED <<bookings, resources>>
               /\ last' = [RouteCall("resource.delete", 0, current_user, "cancelled", FALSE)
                           EXCEPT !.resource_id = r]
    /\ UNCHANGED <<unavailable, pc, local, scan, now>>

\* a row that DELETE has removed: its booking_id is never given again
DeletedRow == Booking(0, 0, <<>>, <<>>, "deleted")

\* the DELETE of BookingDAL.cancel_bookings_by_resource
delete_by_resource(bk, resource_id) ==
    [b \in 1..Len(bk) |->
        IF bk[b].resource_id = resource_id THEN DeletedRow ELSE bk[b]]

\* admin_controller.update_resource_status: POST
\* /admin/resources/<resource_id>/update-status by an administrator
UpdateResourceStatus ==
    /\ Ready
    /\ \E r \in Resources, new_status \in ResourceStatuses :
          /\ bookings' = IF new_status = "archived"
                          THEN delete_by_resource(bookings, r) ELSE bookings
          /\ resources' = [resources EXCEPT ![r].status = new_status]
          /\ last' = [RouteCall("admin.update_resource_status", 0, MaxUser + 1,
                                new_status, TRUE)
                      EXCEPT !.resource_id = r]
    /\ UNCHANGED <<unavailable, pc, local, scan, now>>

ResourcesNext ==
    \/ BookingCreateRoute
    \/ ResourceDetailPost
    \/ ResourceDeleteRoute
    \/ UpdateResourceStatus
    \/ Return

SpecResources == ResourcesInit /\ [][ResourcesNext]_vars

\* ------------------ the approve and cancel routes, one query at a time
\* what a route holds between its SELECT and its UPDATE: the row it has
\* read and the request it is serving
RouteLocal(b, row, current_user, action) ==
    [booking_id |-> b, booking |-> row, current_user |-> current_user,
     action |-> action]

\* booking_controller.cancel: BookingDAL.get_booking_by_id
CancelRead(p) ==
    /\ pc[p] = "idle" /\ last = NoCall /\ scan = NoScan
    /\ \E b \in 1..Len(bookings), current_user \in Users :
          local' = [local EXCEPT ![p] = RouteLocal(b, bookings[b], current_user, "cancelled")]
    /\ pc' = [pc EXCEPT ![p] = "cancel_read"]
    /\ UNCHANGED <<bookings, unavailable, last, scan, now, resources>>

\* booking_controller.cancel: can_be_cancelled on the row that was read,
\* then BookingDAL.cancel_booking
CancelWrite(p) ==
    /\ pc[p] = "cancel_read"
    /\ bookings' = IF can_be_cancelled(local[p].booking, local[p].current_user, now)
                    THEN set_status(bookings, local[p].booking_id, "cancelled")
                    ELSE bookings
    /\ pc' = [pc EXCEPT ![p] = "idle"]
    /\ local' = [local EXCEPT ![p] = NoArgs]
    /\ UNCHANGED <<unavailable, last, scan, now, resources>>

\* booking_controller.approve: BookingDAL.get_booking_by_id, for a request
\* of the owner or an administrator with the action of the form
ApproveRead(p) ==
    /\ pc[p] = "idle" /\ last = NoCall /\ scan = NoScan
    /\ \E b \in 1..Len(bookings), action \in {"approved", "rejected"} :
          local' = [local EXCEPT ![p] = RouteLocal(b, bookings[b], MaxUser + 1, action)]
    /\ pc' = [pc EXCEPT ![p] = "approve_read"]
    /\ UNCHANGED <<bookings, unavailable, last, scan, now, resources>>

\* booking_controller.approve: can_be_approved on the row that was read,
\* then BookingDAL.update_booking_status
ApproveWrite(p) ==
    /\ pc[p] = "approve_read"
    /\ bookings' = IF can_be_approved(local[p].booking)
                    THEN set_status(bookings, local[p].booking_id, local[p].action)
                    ELSE bookings
    /\ pc' = [pc EXCEPT ![p] = "idle"]
    /\ local' = [local EXCEPT ![p] = NoArgs]
    /\ UNCHANGED <<unavailable, last, scan, now, resources>>

\* bookings are created, and requests to approve and to cancel them are
\* served by concurrent workers
RaceNext ==
    \/ CreateBooking
    \/ Return
    \/ \E p \in Procs : CancelRead(p)
    \/ \E p \in Procs : CancelWrite(p)
    \/ \E p \in Procs : ApproveRead(p)
    \/ \E p \in Procs : ApproveWrite(p)

SpecRace == Init /\ [][RaceNext]_vars

\* the data access layer called directly while time passes, as the
\* repository's tests call it
ClockNext ==
    \/ Tick
    \/ CreateBooking
    \/ UpdateBookingStatus
    \/ AutoCompletePastBookings
    \/ Return

SpecClock == Init /\ [][ClockNext]_vars

\* ------------------------ BookingDAL.get_available_slots, step by step
\* The call reads the two tables, then runs its while loop; each pass of
\* the loop is one step.
MinSlotHour == 8
MaxSlotHour == 11
MaxBlocked == 2

\* windows and stored intervals begin and end on the hour
SlotTimes == [hour : MinSlotHour..MaxSlotHour, minute : {0}, microsecond : {0}]

SlotIntervals == {i \in SlotTimes \X SlotTimes : dt_lt(i[1], i[2])}

\* the slot lengths asked for, in minutes
ScanDurations == {30, 60, 90}

\* pending and approved bookings of resource 1; they may overlap one
\* another, as the bookings of two interleaved create_booking calls do
ScanRows ==
    {Booking(1, 1, isoformat(i[1]), isoformat(i[2]), st) :
        i \in SlotIntervals, st \in {"approved", "pending"}}

ScanInit ==
    /\ bookings \in UNION {[1..n -> ScanRows] : n \in 0..MaxBlocked}
    /\ unavailable \in {{}} \cup {{UnavailableSlot(1, isoformat(i[1]), isoformat(i[2]))} :
                                    i \in SlotIntervals}
    /\ pc = [p \in Procs |-> "idle"]
    /\ local = [p \in Procs |-> NoArgs]
    /\ last = NoCall
    /\ scan = NoScan
    /\ now = DayStart
    /\ resources = [r \in Resources |-> Resource("published", resource_owner(r), TRUE)]

\* BeginScan that first completes the approved bookings that ended before
\* the window, as the booking lists do
BeginScan_completes_past ==
    /\ Ready
    /\ \E s \in SlotTimes, e \in SlotTimes, d \in ScanDurations :
          /\ bookings' = auto_complete(bookings, s)
          /\ scan' = Scan("loop", 1, s, e, d,
                          sort_blocked(blocked_entries(bookings', unavailable, 1, s, e)),
                          s, <<>>)
    /\ UNCHANGED <<unavailable, pc, local, last, now, resources>>

\* the call: both queries and the sort of blocked_times
BeginScan ==
    /\ Ready
    /\ \E s \in SlotTimes, e \in SlotTimes, d \in ScanDurations :
          scan' = Scan("loop", 1, s, e, d,
                       sort_blocked(blocked_entries(bookings, unavailable, 1, s, e)),
                       s, <<>>)
    /\ UNCHANGED <<bookings, unavailable, pc, local, last, now, resources>>

\* one pass of the while loop
ScanIteration ==
    /\ scan.pc = "loop"
    /\ fits(scan.current_time, scan.slot_duration_minutes, scan.end_date)
    /\ LET slot_end == add_minutes(scan.current_time, scan.slot_duration_minutes)
           i == first_hit(scan.blocked_times, scan.current_time, slot_end)
       IN IF i = 0
          THEN scan' = [scan EXCEPT
                          !.available_slots =
                              Append(@, [start_datetime |-> scan.current_time,
                                         end_datetime |-> slot_end]),
                          !.current_time = slot_end]
          ELSE scan' = [scan EXCEPT
                          !.current_time = resume_time(scan.blocked_times[i]),
                          !.pc = IF dt_le(scan.end_date, resume_time(scan.blocked_times[i]))
                                 THEN "break" ELSE "loop"]
    /\ UNCHANGED <<bookings, unavailable, pc, local, last, now, resources>>

\* the loop has ended: return available_slots
ScanReturn ==
    /\ \/ scan.pc = "break"
       \/ /\ scan.pc = "loop"
          /\ ~fits(scan.current_time, scan.slot_duration_minutes, scan.end_date)
    /\ last' = [Call("get_available_slots", scan.resource_id, 0, scan.start_date,
                     scan.end_date, 0, "", NoNotes, FALSE, "", 0, FALSE)
                EXCEPT !.slot_duration_minutes = scan.slot_duration_minutes,
                       !.ret_slots = scan.available_slots]
    /\ scan' = NoScan
    /\ UNCHANGED <<bookings, unavailable, pc, local, now, resources>>

ScanNext ==
    \/ BeginScan
    \/ ScanIteration
    \/ ScanReturn
    \/ HasBookingConflict
    \/ Return

SpecSlots == ScanInit /\ [][ScanNext]_vars

\* the interpreter keeps running a call that has started
SpecSlotsFair == SpecSlots /\ WF_vars(ScanIteration) /\ WF_vars(ScanReturn)

\* ----------------------------------------- the available-slots endpoint
\* the scan is followed until its list holds this many slots
MaxSlots == 3

\* int(request.args.get('duration', 60)): any integer the client sends
RouteDurations == {-60, 0, 60}

\* booking_controller.available_slots: GET
\* /bookings/resource/<resource_id>/available-slots hands start, end and
\* duration to get_available_slots as they came
AvailableSlotsRoute ==
    /\ Ready
    /\ \E s \in SlotTimes, e \in SlotTimes, d \in RouteDurations :
          scan' = Scan("loop", 1, s, e, d,
                       sort_blocked(blocked_entries(bookings, unavailable, 1, s, e)),
                       s, <<>>)
    /\ UNCHANGED <<bookings, unavailable, pc, local, last, now, resources>>

\* one pass of the while loop, as long as available_slots is short enough
\* to follow
BoundedScanIteration ==
    /\ Len(scan.available_slots) < MaxSlots
    /\ ScanIteration

EndpointNext ==
    \/ AvailableSlotsRoute
    \/ BoundedScanIteration
    \/ ScanReturn
    \/ Return

\* the interpreter keeps running a call that has started
SpecEndpoint ==
    /\ ScanInit
    /\ [][EndpointNext]_vars
    /\ WF_vars(BoundedScanIteration)
    /\ WF_vars(ScanReturn)

\* ------------------- BookingDAL.create_booking run by concurrent callers
\* Every execute_query / execute_update opens its own connection, so each
\* is one step; other callers' steps may come in between.

\* the call, with the validation of the datetime order
Begin(p) ==
    /\ pc[p] = "idle"
    /\ \E r \in Resources, u \in Users, s \in DateTimes, e \in DateTimes,
          ar \in BOOLEAN :
          /\ local' = [local EXCEPT ![p] =
                [resource_id |-> r, requester_id |-> u, start_datetime |-> s,
                 end_datetime |-> e, approval_required |-> ar, db_error |-> FALSE]]
          /\ pc' = [pc EXCEPT ![p] =
                IF dt_le(e, s) THEN "raised" ELSE "check_bookings"]
    /\ UNCHANGED <<bookings, unavailable, last, scan, now, resources>>

\* has_booking_conflict: the execute_query on bookings
CheckBookings(p) ==
    /\ pc[p] = "check_bookings"
    /\ pc' = [pc EXCEPT ![p] =
          IF booking_conflicts(bookings, local[p].resource_id,
                               local[p].start_datetime, local[p].end_datetime,
                               NoBooking) > 0
          THEN "returned_none" ELSE "check_unavailable"]
    /\ UNCHANGED <<bookings, unavailable, local, last, scan, now, resources>>

\* has_booking_conflict: the execute_query on resource_unavailable_slots
CheckUnavailable(p) ==
    /\ pc[p] = "check_unavailable"
    /\ pc' = [pc EXCEPT ![p] =
          IF unavailable_conflicts(unavailable, local[p].resource_id,
                                   local[p].start_datetime, local[p].end_datetime) > 0
          THEN "returned_none" ELSE "insert"]
    /\ UNCHANGED <<bookings, unavailable, local, last, scan, now, resources>>

\* the rows of the table after the execute_update of caller p
insert_step(p) ==
    insert_booking(bookings, local[p].resource_id, local[p].requester_id,
                   local[p].start_datetime, local[p].end_datetime,
                   local[p].approval_required)

\* Insert that checks for conflicts again in the step that inserts
Insert_rechecks(p) ==
    /\ pc[p] = "insert"
    /\ IF has_booking_conflict(bookings, unavailable, local[p].resource_id,
                               local[p].start_datetime, local[p].end_datetime, NoBooking)
       THEN /\ pc' = [pc EXCEPT ![p] = "returned_none"]
            /\ UNCHANGED bookings
       ELSE /\ Len(bookings) < MaxBookings
            /\ bookings' = insert_step(p)
            /\ pc' = [pc EXCEPT ![p] = "returned_id"]
    /\ UNCHANGED <<unavailable, local, last, scan, now, resources>>

\* create_booking: the execute_update with the INSERT
Insert(p) ==
    /\ pc[p] = "insert"
    /\ Len(bookings) < MaxBookings
    /\ bookings' = insert_step(p)
    /\ pc' = [pc EXCEPT ![p] = "returned_id"]
    /\ UNCHANGED <<unavailable, local, last, scan, now, resources>>

ConcNext ==
    \E p \in Procs :
        \/ Begin(p)
        \/ CheckBookings(p)
        \/ CheckUnavailable(p)
        \/ Insert(p)

\* a query of has_booking_conflict fails and the failure is taken for an
\* empty result
QueryFails_no_rows(p) ==
    /\ pc[p] \in {"check_bookings", "check_unavailable"}
    /\ local' = [local EXCEPT ![p].db_error = TRUE]
    /\ pc' = [pc EXCEPT ![p] =
          IF pc[p] = "check_bookings" THEN "check_unavailable" ELSE "insert"]
    /\ UNCHANGED <<bookings, unavailable, last, scan, now, resources>>

\* a query of has_booking_conflict fails: sqlite3.connect or cursor.execute
\* raises, get_connection rolls back and raises again, and neither
\* execute_query, has_booking_conflict nor create_booking catches it
QueryFails(p) ==
    /\ pc[p] \in {"check_bookings", "check_unavailable"}
    /\ local' = [local EXCEPT ![p].db_error = TRUE]
    /\ pc' = [pc EXCEPT ![p] = "raised_db"]
    /\ UNCHANGED <<bookings, unavailable, last, scan, now, resources>>

\* callers of create_booking on a database that may fail
FailNext ==
    \E p \in Procs :
        \/ Begin(p)
        \/ CheckBookings(p)
        \/ CheckUnavailable(p)
        \/ Insert(p)
        \/ QueryFails(p)

SpecFail == Init /\ [][FailNext]_vars

SpecConc == Init /\ [][ConcNext]_vars

\* ------------------------------------------------------------ properties

\* the interval a stored row occupies, as datetimes
row_start(row) == fromisoformat(row.start_datetime)
row_end(row) == fromisoformat(row.end_datetime)

\* strict overlap of [s1, e1) and [s2, e2) in time
overlaps(s1, e1, s2, e2) == dt_lt(s1, e2) /\ dt_lt(s2, e1)

IsActive(row) == row.status \in {"pending", "approved"}

\* the rows that block [s, e) on resource r: active bookings and blackout slots
blocking_bookings(r, s, e) ==
    {b \in 1..Len(bookings) :
        /\ bookings[b].resource_id = r
        /\ IsActive(bookings[b])
        /\ overlaps(row_start(bookings[b]), row_end(bookings[b]), s, e)}

blocking_slots(r, s, e) ==
    {u \in unavailable :
        /\ u.resource_id = r
        /\ overlaps(row_start(u), row_end(u), s, e)}

\* C1: with calls run one at a time and only the status changes the
\* lifecycle allows, no two active (pending or approved) bookings of one
\* resource strictly overlap, and no active booking strictly overlaps a
\* blackout slot of its resource.
C1_NoOverlap ==
    /\ \A a \in 1..Len(bookings), b \in 1..Len(bookings) :
          (/\ a # b
           /\ bookings[a].resource_id = bookings[b].resource_id
           /\ IsActive(bookings[a])
           /\ IsActive(bookings[b]))
          => ~overlaps(row_start(bookings[a]), row_end(bookings[a]),
                       row_start(bookings[b]), row_end(bookings[b]))
    /\ \A a \in 1..Len(bookings), u \in unavailable :
          (bookings[a].resource_id = u.resource_id /\ IsActive(bookings[a]))
          => ~overlaps(row_start(bookings[a]), row_end(bookings[a]),
                       row_start(u), row_end(u))

\* two active bookings share the resource that has a blackout slot, the
\* second one moved there by a successful update_booking
C1_Witness ==
    /\ last.op = "update_booking" /\ last.ret_bool
    /\ last.start_datetime # NoDateTime
    /\ Len(bookings) = 2
    /\ \A b \in 1..2 : bookings[b].resource_id = 1 /\ IsActive(bookings[b])
    /\ \E u \in unavailable : u.resource_id = 1

\* C2: the conflict check and the insert of create_booking are separate
\* steps: a caller that has seen no conflict inserts its row whatever has
\* been committed since, so two interleaved calls for overlapping intervals
\* of one resource can both insert.
C2_InsertAfterStaleCheck ==
    [][\A p \in Procs :
          (pc[p] = "insert" /\ pc'[p] # "insert")
          => /\ pc'[p] = "returned_id"
             /\ bookings' = insert_step(p)]_vars

\* both callers have returned an id and their two active bookings of the
\* same resource strictly overlap
C2_Witness ==
    /\ \A p \in Procs : pc[p] = "returned_id"
    /\ \E a \in 1..Len(bookings), b \in 1..Len(bookings) :
          /\ a # b
          /\ bookings[a].resource_id = bookings[b].resource_id
          /\ IsActive(bookings[a]) /\ IsActive(bookings[b])
          /\ overlaps(row_start(bookings[a]), row_end(bookings[a]),
                      row_start(bookings[b]), row_end(bookings[b]))

\* C3: for a proposed interval [s, e) with e > s, has_booking_conflict(r, s, e)
\* is true exactly when an active booking of r, or a blackout slot of r,
\* has start < e and s < end.
C3_ConflictIffOverlap ==
    (/\ last.op = "has_booking_conflict"
     /\ last.booking_id = NoBooking
     /\ dt_lt(last.start_datetime, last.end_datetime))
    => (last.ret_bool <=>
          \/ blocking_bookings(last.resource_id, last.start_datetime, last.end_datetime) # {}
          \/ blocking_slots(last.resource_id, last.start_datetime, last.end_datetime) # {})

\* a conflict reported for a proposed interval that strictly contains an
\* active booking and meets no blackout slot
C3_Witness ==
    /\ last.op = "has_booking_conflict" /\ last.ret_bool
    /\ last.booking_id = NoBooking
    /\ blocking_slots(last.resource_id, last.start_datetime, last.end_datetime) = {}
    /\ \E b \in 1..Len(bookings) :
          /\ bookings[b].resource_id = last.resource_id
          /\ IsActive(bookings[b])
          /\ dt_lt(last.start_datetime, row_start(bookings[b]))
          /\ dt_lt(row_end(bookings[b]), last.end_datetime)

\* an active booking or a blackout slot of r ends where [s, e) starts, or
\* starts where it ends
touches(r, s, e) ==
    \/ \E b \in 1..Len(bookings) :
          /\ bookings[b].resource_id = r /\ IsActive(bookings[b])
          /\ (row_end(bookings[b]) = s \/ row_start(bookings[b]) = e)
    \/ \E u \in unavailable :
          /\ u.resource_id = r
          /\ (row_end(u) = s \/ row_start(u) = e)

\* C4: an interval that only touches an active booking or a blackout slot at
\* an endpoint is no conflict unless another row strictly overlaps it, and
\* create_booking refuses an interval only for a strict overlap, so
\* back-to-back bookings are all created.
C4_TouchingIsNoConflict ==
    /\ (/\ last.op = "has_booking_conflict"
        /\ last.booking_id = NoBooking
        /\ dt_lt(last.start_datetime, last.end_datetime)
        /\ touches(last.resource_id, last.start_datetime, last.end_datetime)
        /\ blocking_bookings(last.resource_id, last.start_datetime, last.end_datetime) = {}
        /\ blocking_slots(last.resource_id, last.start_datetime, last.end_datetime) = {})
       => ~last.ret_bool
    /\ (/\ last.op = "create_booking"
        /\ last.raised = ""
        /\ last.ret_id = 0)
       => \/ blocking_bookings(last.resource_id, last.start_datetime, last.end_datetime) # {}
          \/ blocking_slots(last.resource_id, last.start_datetime, last.end_datetime) # {}

\* a chain: the booking just created starts where an active booking ends,
\* which starts where the blackout slot ends
C4_Witness ==
    /\ last.op = "create_booking" /\ last.ret_id # 0
    /\ \E b \in 1..Len(bookings), u \in unavailable :
          /\ b # last.ret_id
          /\ IsActive(bookings[b])
          /\ bookings[b].resource_id = last.resource_id
          /\ u.resource_id = last.resource_id
          /\ row_end(u) = row_start(bookings[b])
          /\ row_end(bookings[b]) = last.start_datetime

\* the bookings table without the cancelled, rejected and completed rows
active_only(bk) == SelectSeq(bk, IsActive)

\* C5: cancelled, rejected and completed bookings never block:
\* has_booking_conflict answers as it would with those rows removed, and
\* create_booking returns None only when it would with them removed.
C5_InactiveNeverBlocks ==
    /\ (last.op = "has_booking_conflict" /\ last.booking_id = NoBooking)
       => last.ret_bool =
             has_booking_conflict(active_only(bookings), unavailable, last.resource_id,
                                  last.start_datetime, last.end_datetime, NoBooking)
    /\ (last.op = "create_booking" /\ last.raised = "" /\ last.ret_id = 0)
       => has_booking_conflict(active_only(bookings), unavailable, last.resource_id,
                               last.start_datetime, last.end_datetime, NoBooking)

\* a booking created on the exact interval of a cancelled booking of the
\* same resource
C5_Witness ==
    /\ last.op = "create_booking" /\ last.ret_id # 0
    /\ \E b \in 1..Len(bookings) :
          /\ bookings[b].status = "cancelled"
          /\ bookings[b].resource_id = last.resource_id
          /\ row_start(bookings[b]) = last.start_datetime
          /\ row_end(bookings[b]) = last.end_datetime

\* the rows another resource's bookings might hold instead
OtherRows ==
    {Booking(0, 1, isoformat(i[1]), isoformat(i[2]), st) :
        i \in {x \in DateTimes \X DateTimes : dt_lt(x[1], x[2])},
        st \in {"approved", "cancelled"}}

\* the bookings table with every row of a resource other than r replaced
\* by the row alt (kept on its own resource), and the blackout slots of r
with_other_rows(bk, r, alt) ==
    [b \in 1..Len(bk) |->
        IF bk[b].resource_id = r THEN bk[b]
        ELSE [alt EXCEPT !.resource_id = bk[b].resource_id]]

slots_of(un, r) == {u \in un : u.resource_id = r}

\* the bookings table as the last create_booking call found it
table_before_create ==
    IF last.ret_id # 0 THEN SubSeq(bookings, 1, last.ret_id - 1) ELSE bookings

\* C6: the records of other resources never influence the result for a
\* resource: has_booking_conflict, create_booking and get_available_slots
\* give for r what they give with the other resources' bookings replaced
\* by any other rows and their blackout slots removed.
C6_ResourceIsolation ==
    /\ last.op = "has_booking_conflict"
       => \A alt \in OtherRows :
             last.ret_bool =
                has_booking_conflict(with_other_rows(bookings, last.resource_id, alt),
                                     slots_of(unavailable, last.resource_id),
                                     last.resource_id, last.start_datetime,
                                     last.end_datetime, last.booking_id)
    /\ (last.op = "create_booking" /\ last.raised = "")
       => \A alt \in OtherRows :
             (last.ret_id = 0) =
                has_booking_conflict(with_other_rows(table_before_create, last.resource_id, alt),
                                     slots_of(unavailable, last.resource_id),
                                     last.resource_id, last.start_datetime,
                                     last.end_datetime, NoBooking)
    /\ last.op = "get_available_slots"
       => \A alt \in OtherRows :
             last.ret_slots =
                get_available_slots(with_other_rows(bookings, last.resource_id, alt),
                                    slots_of(unavailable, last.resource_id),
                                    last.resource_id, last.start_datetime,
                                    last.end_datetime, last.slot_duration_minutes)

\* a booking created on a resource for the exact interval of an approved
\* booking of another resource, which also has a blackout slot
C6_Witness ==
    /\ last.op = "create_booking" /\ last.ret_id # 0
    /\ \E b \in 1..Len(bookings), u \in unavailable :
          /\ bookings[b].resource_id # last.resource_id
          /\ u.resource_id = bookings[b].resource_id
          /\ bookings[b].status = "approved"
          /\ row_start(bookings[b]) = last.start_datetime
          /\ row_end(bookings[b]) = last.end_datetime

\* update_booking was given a new start or a new end
times_given == last.start_datetime # NoDateTime \/ last.end_datetime # NoDateTime

\* C7: has_booking_conflict with exclude_booking_id = b reports no conflict
\* that only booking b causes, so update_booking(b, ...) fails on its new
\* interval only when another active booking or a blackout slot strictly
\* overlaps it, and otherwise stores the new interval.
C7_ExcludeOwnBooking ==
    /\ (/\ last.op = "has_booking_conflict"
        /\ last.booking_id # NoBooking
        /\ dt_lt(last.start_datetime, last.end_datetime))
       => (last.ret_bool <=>
             \/ blocking_bookings(last.resource_id, last.start_datetime,
                                  last.end_datetime) \ {last.booking_id} # {}
             \/ blocking_slots(last.resource_id, last.start_datetime,
                               last.end_datetime) # {})
    /\ (/\ last.op = "update_booking"
        /\ last.raised = ""
        /\ last.booking_id \in 1..Len(bookings)
        /\ times_given
        /\ ~last.ret_bool)
       => LET r == bookings[last.booking_id].resource_id
              s == new_start(bookings, last.booking_id, last.start_datetime)
              e == new_end(bookings, last.booking_id, last.end_datetime)
          IN \/ blocking_bookings(r, s, e) \ {last.booking_id} # {}
             \/ blocking_slots(r, s, e) # {}
    /\ (last.op = "update_booking" /\ last.ret_bool)
       => /\ last.start_datetime # NoDateTime
             => row_start(bookings[last.booking_id]) = last.start_datetime
          /\ last.end_datetime # NoDateTime
             => row_end(bookings[last.booking_id]) = last.end_datetime

\* update_booking has given an active booking a new start and kept its
\* end, so the new interval overlaps the one it had; another active
\* booking of the resource is stored too
C7_Witness ==
    /\ last.op = "update_booking" /\ last.ret_bool
    /\ last.start_datetime # NoDateTime /\ last.end_datetime = NoDateTime
    /\ IsActive(bookings[last.booking_id])
    /\ \E b \in 1..Len(bookings) :
          /\ b # last.booking_id
          /\ IsActive(bookings[b])
          /\ bookings[b].resource_id = bookings[last.booking_id].resource_id

C9_InvalidCreateRaises ==
    [][(last'.op = "create_booking"
        /\ dt_le(last'.end_datetime, last'.start_datetime))
       => /\ last'.raised = "ValueError"
          /\ last'.ret_id = 0
          /\ bookings' = bookings
          /\ unavailable' = unavailable]_vars

\* create_booking has raised ValueError for an interval with end <= start
\* that an active booking of the resource overlaps
C9_Witness ==
    /\ last.op = "create_booking" /\ last.raised = "ValueError"
    /\ \E b \in 1..Len(bookings) :
          /\ bookings[b].resource_id = last.resource_id
          /\ IsActive(bookings[b])
          /\ overlaps(row_start(bookings[b]), row_end(bookings[b]),
                      last.start_datetime, last.end_datetime)

\* C10: for end > start create_booking never raises: when
\* has_booking_conflict is true it returns None and changes no booking,
\* and when it is false it adds exactly one booking, active, with the
\* requested resource, requester and interval, and returns its id.
C10_ConflictIsAResult ==
    [][(last'.op = "create_booking"
        /\ dt_lt(last'.start_datetime, last'.end_datetime))
       => /\ last'.raised = ""
          /\ IF has_booking_conflict(bookings, unavailable, last'.resource_id,
                                     last'.start_datetime, last'.end_datetime, NoBooking)
             THEN /\ last'.ret_id = 0
                  /\ bookings' = bookings
             ELSE /\ last'.ret_id = Len(bookings) + 1
                  /\ Len(bookings') = Len(bookings) + 1
                  /\ SubSeq(bookings', 1, Len(bookings)) = bookings
                  /\ LET row == bookings'[last'.ret_id]
                     IN /\ row.resource_id = last'.resource_id
                        /\ row.requester_id = last'.requester_id
                        /\ row_start(row) = last'.start_datetime
                        /\ row_end(row) = last'.end_datetime
                        /\ IsActive(row)]_vars

\* create_booking has returned None, without raising, for an interval that
\* an active booking of the resource strictly overlaps
C10_Witness ==
    /\ last.op = "create_booking" /\ last.raised = "" /\ last.ret_id = 0
    /\ dt_lt(last.start_datetime, last.end_datetime)
    /\ blocking_bookings(last.resource_id, last.start_datetime, last.end_datetime) # {}

\* C11: the booking create_booking adds has status 'pending' when
\* approval_required is true and 'approved' otherwise, and a step that adds
\* a booking never gives it any other status.
C11_InitialStatus ==
    [][/\ (last'.op = "create_booking" /\ last'.ret_id # 0)
          => /\ last'.ret_id = Len(bookings')
             /\ bookings'[last'.ret_id].status =
                   IF last'.approval_required THEN "pending" ELSE "approved"
       /\ \A b \in (Len(bookings) + 1)..Len(bookings') :
             bookings'[b].status \in {"pending", "approved"}]_vars

\* create_booking has just added a booking with approval_required true,
\* and the booking's status is 'pending'
C11_Witness ==
    /\ last.op = "create_booking" /\ last.ret_id # 0
    /\ last.approval_required
    /\ bookings[last.ret_id].status = "pending"

\* C12: the status of a booking changes only along pending -> approved,
\* pending -> rejected, pending -> cancelled, approved -> cancelled and
\* approved -> completed; a rejected, cancelled or completed booking keeps
\* its status.
C12_LifecycleOnly ==
    [][\A b \in 1..Len(bookings) :
          (b \in 1..Len(bookings') /\ bookings'[b].status # bookings[b].status)
          => lifecycle_allows(bookings[b].status, bookings'[b].status)]_vars

\* --------------------------------------- the result of get_available_slots
\* minutes since midnight of a datetime on the minute
minutes_of(dt) == dt.hour * 60 + dt.minute

\* get_available_slots has returned
slots_returned == last.op = "get_available_slots" /\ last.raised = ""

\* C13: no slot that get_available_slots returns conflicts under the rule
\* of has_booking_conflict on the same store: it strictly overlaps no
\* pending or approved booking and no blackout slot of the resource.
C13_SlotsDoNotConflict ==
    slots_returned
    => \A i \in 1..Len(last.ret_slots) :
          ~has_booking_conflict(bookings, unavailable, last.resource_id,
                                last.ret_slots[i].start_datetime,
                                last.ret_slots[i].end_datetime, NoBooking)

\* C14: the slots get_available_slots returns are each exactly
\* slot_duration_minutes long and inside the window, in strictly increasing
\* order of start, and each starts no earlier than the one before it ends.
C14_WellFormed ==
    slots_returned
    => /\ \A i \in 1..Len(last.ret_slots) :
             /\ last.ret_slots[i].end_datetime =
                   add_minutes(last.ret_slots[i].start_datetime, last.slot_duration_minutes)
             /\ dt_le(last.start_datetime, last.ret_slots[i].start_datetime)
             /\ dt_le(last.ret_slots[i].end_datetime, last.end_datetime)
       /\ \A i \in 1..(Len(last.ret_slots) - 1) :
             /\ dt_lt(last.ret_slots[i].start_datetime, last.ret_slots[i + 1].start_datetime)
             /\ dt_le(last.ret_slots[i].end_datetime, last.ret_slots[i + 1].start_datetime)

\* get_available_slots has returned slots on both sides of a blocked
\* period that begins after the start of the window
C14_Witness ==
    /\ slots_returned
    /\ \E i \in 1..(Len(last.ret_slots) - 1) :
          dt_lt(last.ret_slots[i].end_datetime, last.ret_slots[i + 1].start_datetime)
    /\ last.ret_slots[1].start_datetime = last.start_datetime

\* C15: when no pending or approved booking and no blackout slot of the
\* resource overlaps the window, get_available_slots returns the tiling of
\* the window: floor(length / slot_duration_minutes) slots, the k-th from
\* start + (k-1) * duration to start + k * duration, none for a duration
\* longer than the window.
C15_PlainTiling ==
    (/\ slots_returned
     /\ dt_lt(last.start_datetime, last.end_datetime)
     /\ blocking_bookings(last.resource_id, last.start_datetime, last.end_datetime) = {}
     /\ blocking_slots(last.resource_id, last.start_datetime, last.end_datetime) = {})
    => /\ Len(last.ret_slots) =
             (minutes_of(last.end_datetime) - minutes_of(last.start_datetime))
                \div last.slot_duration_minutes
       /\ \A k \in 1..Len(last.ret_slots) :
             /\ last.ret_slots[k].start_datetime =
                   add_minutes(last.start_datetime, (k - 1) * last.slot_duration_minutes)
             /\ last.ret_slots[k].end_datetime =
                   add_minutes(last.start_datetime, k * last.slot_duration_minutes)

\* get_available_slots has tiled a window that nothing blocks and that is
\* no multiple of the slot length, in a store that has bookings elsewhere
C15_Witness ==
    /\ slots_returned
    /\ blocking_bookings(last.resource_id, last.start_datetime, last.end_datetime) = {}
    /\ blocking_slots(last.resource_id, last.start_datetime, last.end_datetime) = {}
    /\ Len(last.ret_slots) >= 1
    /\ (minutes_of(last.end_datetime) - minutes_of(last.start_datetime))
          % last.slot_duration_minutes # 0
    /\ Len(bookings) > 0

\* the datetime m minutes after midnight
at_minute(m) == [hour |-> m \div 60, minute |-> m % 60, microsecond |-> 0]

\* the common measure of the slot lengths: windows, stored intervals and
\* cursors all fall on its multiples
cell == CHOOSE g \in ScanDurations : \A d \in ScanDurations : d % g = 0

\* the starts of the cells of the window of the last call
window_cells ==
    {m \in minutes_of(last.start_datetime)..(minutes_of(last.end_datetime) - cell) :
        (m - minutes_of(last.start_datetime)) % cell = 0}

\* a blocking interval of the table bk or a blackout slot overlaps the cell at m
cell_blocked(bk, m) ==
    has_booking_conflict(bk, unavailable, last.resource_id,
                         at_minute(m), at_minute(m + cell), NoBooking)

\* a maximal free gap of the window begins at m
gap_starts(bk, m) ==
    /\ m \in window_cells
    /\ ~cell_blocked(bk, m)
    /\ m = minutes_of(last.start_datetime) \/ cell_blocked(bk, m - cell)

\* the end of the free gap that begins at m
gap_end(bk, m) ==
    CHOOSE h \in (window_cells \cup {minutes_of(last.end_datetime)}) :
        /\ h > m
        /\ h = minutes_of(last.end_datetime) \/ cell_blocked(bk, h)
        /\ \A c \in window_cells : (m <= c /\ c < h) => ~cell_blocked(bk, c)

\* the slots returned that lie in [m, h)
slots_in(m, h) ==
    {i \in 1..Len(last.ret_slots) :
        /\ m <= minutes_of(last.ret_slots[i].start_datetime)
        /\ minutes_of(last.ret_slots[i].end_datetime) <= h}

\* in every maximal free gap left by the blocking intervals of bk and the
\* blackout slots the result has floor(length / duration) slots, the
\* first at the start of the gap
maximal_in_gaps(bk) ==
    \A m \in window_cells :
        gap_starts(bk, m)
        => LET h == gap_end(bk, m)
           IN /\ Cardinality(slots_in(m, h)) = (h - m) \div last.slot_duration_minutes
              /\ slots_in(m, h) # {}
                 => \E i \in slots_in(m, h) :
                       minutes_of(last.ret_slots[i].start_datetime) = m

\* C16: after a candidate slot that overlaps a blocking interval the scan
\* resumes at the end of that interval, so in every maximal free gap of the
\* window, between window edges, pending or approved bookings and blackout
\* slots, get_available_slots returns floor(gap length / slot duration)
\* slots, the first at the start of the gap.
C16_MaximalInEveryGap ==
    (slots_returned /\ dt_lt(last.start_datetime, last.end_datetime))
    => maximal_in_gaps(bookings)

\* C17: the scan of get_available_slots terminates: every pass of the
\* loop moves current_time strictly forward, the loop is left as soon as
\* current_time + slot_duration > end_date, and every call that has begun
\* returns.
C17_ScanTerminates ==
    /\ [][/\ (scan.pc = "loop" /\ scan'.pc # "idle")
             => dt_lt(scan.current_time, scan'.current_time)
          /\ (/\ scan.pc = "loop"
              /\ ~fits(scan.current_time, scan.slot_duration_minutes, scan.end_date))
             => scan'.pc = "idle"]_vars
    /\ (scan.pc = "loop") ~> (scan.pc = "idle")

\* the scan has skipped a blocked period that lies inside another one and
\* goes on after it
C17_Witness ==
    /\ scan.pc = "loop"
    /\ scan.available_slots = <<>>
    /\ dt_lt(scan.start_date, scan.current_time)
    /\ fits(scan.current_time, scan.slot_duration_minutes, scan.end_date)
    /\ \E i, j \in 1..Len(scan.blocked_times) :
          /\ i # j
          /\ dt_lt(scan.blocked_times[i].start, scan.blocked_times[j].start)
          /\ dt_lt(scan.blocked_times[j].end, scan.blocked_times[i].end)

\* C18: get_available_slots called with end_date <= start_date raises an
\* invalid-interval error and returns no sequence.
C18_InvalidWindowRaises ==
    (last.op = "get_available_slots" /\ dt_le(last.end_datetime, last.start_datetime))
    => last.raised # ""

\* C19: has_booking_conflict and get_available_slots change no booking and
\* no blackout slot, at any of their steps, and leave nothing behind: what
\* get_available_slots returns is determined by the tables and its
\* arguments.
C19_QueriesReadOnly ==
    [][/\ bookings' = bookings
       /\ unavailable' = unavailable
       /\ last'.op = "get_available_slots"
          => /\ scan' = NoScan
             /\ last'.ret_slots =
                   get_available_slots(bookings, unavailable, last'.resource_id,
                                       last'.start_datetime, last'.end_datetime,
                                       last'.slot_duration_minutes)]_vars

\* get_available_slots has returned slots from tables that hold bookings,
\* one of them approved and over, and a blackout slot
C19_Witness ==
    /\ slots_returned
    /\ Len(last.ret_slots) > 0
    /\ unavailable # {}
    /\ \E b \in 1..Len(bookings) :
          /\ bookings[b].status = "approved"
          /\ dt_lt(row_end(bookings[b]), last.start_datetime)

\* C20: a create_booking call in which a query of has_booking_conflict
\* failed has ended with the error: it took neither answer of the check
\* and it inserts nothing.
C20_FailurePropagates ==
    [][\A p \in Procs :
          local'[p].db_error
          => /\ pc'[p] = "raised_db"
             /\ pc'[p] # pc[p] => bookings' = bookings]_vars

\* a query of one caller has failed and its call has ended with the
\* error, while the call of another caller has inserted its booking
C20_Witness ==
    \E p, q \in Procs :
        /\ pc[p] = "raised_db" /\ local[p].db_error
        /\ pc[q] = "returned_id"
        /\ Len(bookings) = 1

\* the row of booking a matches the bookings query of has_booking_conflict
\* asked for the interval of booking b
query_matches(a, b) ==
    booking_conflicts(<<[a EXCEPT !.status = "approved"]>>, a.resource_id,
                      row_start(b), row_end(b), NoBooking) > 0

\* C21: the overlap test is symmetric: for any two stored bookings,
\* Booking.conflicts_with says the first conflicts with the interval of
\* the second exactly when it says the second conflicts with the interval
\* of the first, and so does the predicate of has_booking_conflict.
C21_OverlapSymmetric ==
    \A a, b \in 1..Len(bookings) :
        /\ conflicts_with(bookings[a], row_start(bookings[b]), row_end(bookings[b]))
           <=> conflicts_with(bookings[b], row_start(bookings[a]), row_end(bookings[a]))
        /\ query_matches(bookings[a], bookings[b])
           <=> query_matches(bookings[b], bookings[a])

\* two bookings are stored of which one ends when the other starts, and
\* conflicts_with finds no conflict between them
C21_Witness ==
    \E a, b \in 1..Len(bookings) :
        /\ row_end(bookings[a]) = row_start(bookings[b])
        /\ ~conflicts_with(bookings[a], row_start(bookings[b]), row_end(bookings[b]))
        /\ ~query_matches(bookings[b], bookings[a])

C23_UpdateRevalidates ==
    [][(/\ last'.op = "update_booking"
        /\ last'.booking_id \in 1..Len(bookings)
        /\ (last'.start_datetime # NoDateTime \/ last'.end_datetime # NoDateTime))
       => LET b == last'.booking_id
              s == new_start(bookings, b, last'.start_datetime)
              e == new_end(bookings, b, last'.end_datetime)
          IN IF dt_le(e, s)
             THEN last'.raised = "ValueError" /\ bookings' = bookings
             ELSE (\/ blocking_bookings(bookings[b].resource_id, s, e) \ {b} # {}
                   \/ blocking_slots(bookings[b].resource_id, s, e) # {})
                  => /\ last'.raised = "" /\ ~last'.ret_bool
                     /\ bookings' = bookings]_vars

\* update_booking has refused to extend a booking over another active
\* booking of its resource
C23_Witness ==
    /\ last.op = "update_booking" /\ last.raised = "" /\ ~last.ret_bool
    /\ last.booking_id \in 1..Len(bookings)
    /\ last.start_datetime = NoDateTime /\ last.end_datetime # NoDateTime
    /\ blocking_bookings(bookings[last.booking_id].resource_id,
                         row_start(bookings[last.booking_id]), last.end_datetime)
          \ {last.booking_id} # {}

\* C24: completion respects time: in every reachable state, a booking with
\* status completed has an end time that is not after the current time.
C24_CompletedHasEnded ==
    \A b \in 1..Len(bookings) :
        bookings[b].status = "completed" => dt_le(row_end(bookings[b]), now)

\* C25: auto_complete_past_bookings sets to completed exactly the approved
\* bookings whose end time is strictly before the current time, returns
\* their number, and leaves every other booking, and every interval, as it
\* was.
C25_AutoCompleteExact ==
    [][(last = NoCall /\ last'.op = "auto_complete_past_bookings")
       => LET due == {b \in 1..Len(bookings) :
                        /\ bookings[b].status = "approved"
                        /\ dt_lt(row_end(bookings[b]), now)}
          IN /\ Len(bookings') = Len(bookings)
             /\ \A b \in 1..Len(bookings) :
                   bookings'[b] = IF b \in due
                                  THEN [bookings[b] EXCEPT !.status = "completed"]
                                  ELSE bookings[b]
             /\ last'.ret_id = Cardinality(due)
             /\ last'.raised = ""]_vars

\* one approved booking was completed while a pending booking whose end
\* time has passed stayed pending
C25_Witness ==
    /\ last.op = "auto_complete_past_bookings"
    /\ last.ret_id = 1
    /\ \E b \in 1..Len(bookings) : bookings[b].status = "completed"
    /\ \E b \in 1..Len(bookings) :
          /\ bookings[b].status = "pending"
          /\ dt_lt(row_end(bookings[b]), now)

\* C26: owners skip approval: a booking that a booking-creation route
\* creates for the owner of the resource has status approved, whatever
\* requires_approval says; a booking it creates for anyone else on a
\* resource that requires approval has status pending.
C26_OwnersSkipApproval ==
    [][Len(bookings') = Len(bookings) + 1
       => LET row == bookings'[Len(bookings')]
              res == resources[row.resource_id]
          IN IF is_owner(res, row.requester_id)
             THEN row.status = "approved"
             ELSE res.requires_approval => row.status = "pending"]_vars

\* C27: a resource that is archived has no pending or approved booking,
\* from the step that archives it for as long as it stays archived, and
\* the step that archives it leaves the bookings of the other resources as
\* they were.
C27_ArchivedHasNoActiveBooking ==
    /\ [](\A r \in Resources :
            resources[r].status = "archived"
               => \A b \in 1..Len(bookings) :
                     bookings[b].resource_id = r => bookings[b].status \notin ActiveStatuses)
    /\ [][\A r \in Resources :
            (resources[r].status # "archived" /\ resources'[r].status = "archived")
               => /\ Len(bookings') = Len(bookings)
                  /\ \A b \in 1..Len(bookings) :
                        bookings[b].resource_id # r => bookings'[b] = bookings[b]]_vars

\* C28: approve and cancel do not lose updates: once a cancel request has
\* committed the status cancelled, no approve or reject request that read
\* the booking while it was pending changes that status.
C28_CancelledIsKept ==
    [][\A b \in 1..Len(bookings) :
          bookings[b].status = "cancelled" => bookings'[b].status = "cancelled"]_vars

\* C29: update_booking_status keeps the no-overlap invariant: it never
\* makes a booking pending or approved whose interval strictly overlaps
\* another active booking, or a blackout slot, of the same resource.
C29_StatusUpdateKeepsNoOverlap ==
    [][(last = NoCall /\ last'.op = "update_booking_status")
       => \A b \in 1..Len(bookings) :
             (~IsActive(bookings[b]) /\ IsActive(bookings'[b]))
                => /\ blocking_bookings(bookings[b].resource_id,
                                        row_start(bookings[b]),
                                        row_end(bookings[b])) \ {b} = {}
                   /\ blocking_slots(bookings[b].resource_id,
                                     row_start(bookings[b]),
                                     row_end(bookings[b])) = {}]_vars

\* C30: get_available_slots returns for every duration the endpoint can
\* pass it, zero and negative ones included, and every slot it returns
\* ends after it starts.
C30_EndpointScanReturns ==
    /\ (scan.pc = "loop") ~> (scan.pc = "idle")
    /\ [](last.op = "get_available_slots"
            => \A i \in 1..Len(last.ret_slots) :
                  dt_lt(last.ret_slots[i].start_datetime, last.ret_slots[i].end_datetime))

====
